---- MODULE Spec2Model ----
(***************************************************************************)
(* Model of two platform layers of the embla engine:                       *)
(*   lib/js/src/window.rs            InputHandler (callback slots)         *)
(*   src/platform/native/rendering.rs Program, create_program,             *)
(*                                    render_vertices                      *)
(* The graphics driver is modelled by the sequence of driver calls an      *)
(* operation issues (calls) and by the part of the driver state those      *)
(* calls write (blend state, uniform values, texture units) with a         *)
(* snapshot of it taken when the draw call is issued.                      *)
(***************************************************************************)
EXTENDS Integers, Sequences, FiniteSets, TLC

\* ---------------------------------------------------------------- bounds
MaxEvents == 2      \* events delivered to the InputHandler in one behaviour

\* ---------------------------------------------------------------- Option<T>
None == [some |-> FALSE]
Some(x) == [some |-> TRUE, val |-> x]

\* ======================================================================
\* lib/js/src/window.rs
\* ======================================================================
Classes == {"mouse_move", "mouse_down", "mouse_up", "key_down", "key_up"}
\* the values callers and the host pass: two closures, two values of each
\* payload component (the code never inspects a payload)
Closures == {1, 2}
Coords == {0, 1}
Buttons == {0, 1}
Keys == {65, 66}

VARIABLES
  slots,        \* InputHandler fields: class -> Option<closure>
  registered,   \* class -> Option<closure most recently passed to set_<class>>
  invoked,      \* closure invocations made by the last operation, in order
  delivered,    \* class -> number of events of the class delivered so far
  invocations,  \* class -> number of closure invocations of the class so far
  lastEvent     \* Option<event delivered by the last operation>

inputVars == <<slots, registered, invoked, delivered, invocations, lastEvent>>

\* src/platform/native/rendering.rs
VARIABLES
  program,      \* Option<Program>: [uniforms, gl_ref]
  lastCall,     \* the last operation called and what it returned
  calls,        \* driver calls issued by the last operation, in order
  driver,       \* driver state the calls write
  setHistory,   \* (name, uniform) pairs passed to set_uniform since creation
  sinceDraw,    \* number of set_uniform calls since the last render_vertices
  vertexType    \* the Vertex type V the caller's draw calls are instantiated with

renderVars == <<program, lastCall, calls, driver, setHistory, sinceDraw, vertexType>>
vars == <<slots, registered, invoked, delivered, invocations, lastEvent,
          program, lastCall, calls, driver, setHistory, sinceDraw, vertexType>>

RECURSIVE SumOver(_, _)
SumOver(f, S) ==
  IF S = {} THEN 0
  ELSE LET c == CHOOSE x \in S : TRUE IN f[c] + SumOver(f, S \ {c})

TotalDelivered == SumOver(delivered, Classes)

CountClass(s, c) == Cardinality({i \in 1..Len(s) : s[i].class = c})

\* InputHandler::new
InputHandlerNew == [c \in Classes |-> None]

\* `if let Some(ref mut f) = self.<slot> { (*f)(args); }`
\* The result is the sequence of closure invocations the method makes.
CallTwice(slot, class, args) ==
  IF slot.some
  THEN <<[class |-> class, closure |-> slot.val, args |-> args],
         [class |-> class, closure |-> slot.val, args |-> args]>>
  ELSE <<>>
CallAny(slot, class, args) ==
  IF slot.some
  THEN <<[class |-> class, closure |-> slot.val, args |-> args]>>
  ELSE <<[class |-> class, closure |-> 1, args |-> args]>>
Call(slot, class, args) ==
  IF slot.some
  THEN <<[class |-> class, closure |-> slot.val, args |-> args]>>
  ELSE <<>>

\* the host delivers one event of class c: the body shared by the five
\* dispatch methods
Deliver(c, args) ==
  /\ TotalDelivered < MaxEvents
  /\ invoked' = Call(slots[c], c, args)
  /\ delivered' = [delivered EXCEPT ![c] = @ + 1]
  /\ invocations' = [k \in Classes |-> invocations[k] + CountClass(invoked', k)]
  /\ lastEvent' = Some([class |-> c, args |-> args])
  /\ UNCHANGED <<slots, registered>>
  /\ UNCHANGED renderVars

mouse_move(x, y) == Deliver("mouse_move", <<x, y>>)
mouse_down(button, x, y) == Deliver("mouse_down", <<button, x, y>>)
mouse_up(button, x, y) == Deliver("mouse_up", <<button, x, y>>)
key_down(key) == Deliver("key_down", <<key>>)
key_up(key) == Deliver("key_up", <<key>>)

\* `self.<slot> = Some(Box::new(f));`
StoreIfEmpty(old, f) == IF old.some THEN old ELSE Some(f)
Store(old, f) == Some(f)

Register(c, f) ==
  /\ slots' = [slots EXCEPT ![c] = Store(@, f)]
  /\ registered' = [registered EXCEPT ![c] = Some(f)]
  /\ invoked' = <<>>
  /\ lastEvent' = None
  /\ UNCHANGED <<delivered, invocations>>
  /\ UNCHANGED renderVars

set_mouse_move(f) == Register("mouse_move", f)
set_mouse_down(f) == Register("mouse_down", f)
set_mouse_up(f) == Register("mouse_up", f)
set_key_down(f) == Register("key_down", f)
set_key_up(f) == Register("key_up", f)

\* ======================================================================
\* src/platform/native/rendering.rs
\* ======================================================================
MaxUniforms == 3    \* set_uniform calls on one Program
MaxAttrs == 2       \* attributes a vertex type declares
MaxCount == 2       \* components per attribute, 1..MaxCount
MaxVerts == 1       \* length of the vertex sequence, 0..MaxVerts

TEXTURE0 == 33984   \* gl::TEXTURE0 (0x84C0)
HalfWord == 65536   \* 2^16: a GLuint is kept as two 16-bit halves

\* Result<T, Error>
Ok(x) == [ok |-> TRUE, val |-> x]
Err(msg) == [ok |-> FALSE, err |-> msg]

\* enum Uniform
Vec2(v) == [tag |-> "Vec2", v |-> v]
Texture(t) == [tag |-> "Texture", gl_ref |-> t]
\* the uniform values callers pass: two vectors, two texture handles
Vec2Values == {<<0, 1>>, <<1, 0>>}
TextureRefs == {1, 2}
Uniforms == {Vec2(v) : v \in Vec2Values} \cup {Texture(t) : t \in TextureRefs}

\* names the caller passes; the linked program has two active uniforms
UniformNames == {"u_offset", "u_tex", "u_unused"}
GetUniformLocation(name) ==
  CASE name = "u_offset" -> 0
    [] name = "u_tex" -> 1
    [] OTHER -> -1
UniformLocations == {0, 1}

\* trait Vertex: stride() and attributes()
AttrNames == {"position", "uv", "missing"}
AttrTypes == {"Float", "Unsigned"}
GetAttribLocation(name) ==
  CASE name = "position" -> 0
    [] name = "uv" -> 1
    [] OTHER -> -1
\* VertexAttributeType::size: f32 and u32 components are 4 bytes each
AttrTypeSize(t) == CASE t = "Float" -> 4 [] t = "Unsigned" -> 4
GLType(t) == CASE t = "Float" -> "FLOAT" [] t = "Unsigned" -> "UNSIGNED_INT"
\* `x as GLuint` for a GLint x: the two's-complement bits of x, as the
\* high and low 16-bit halves of the 32-bit result
AsGLuint(x) == [hi |-> (x \div HalfWord) % HalfWord, lo |-> x % HalfWord]

Attrs(names) == [name : names, count : 1..MaxCount, type : AttrTypes]
RECURSIVE SeqsUpTo(_, _)
SeqsUpTo(S, n) ==
  IF n = 0 THEN {<<>>}
  ELSE LET shorter == SeqsUpTo(S, n - 1)
       IN shorter \cup {Append(s, x) : s \in {t \in shorter : Len(t) = n - 1}, x \in S}
RECURSIVE AttrBytes(_)
AttrBytes(attrs) ==
  IF attrs = <<>> THEN 0
  ELSE attrs[1].count * AttrTypeSize(attrs[1].type) + AttrBytes(Tail(attrs))
\* a vertex type: its attribute list and a stride that is the attributes'
\* total size, or that plus four bytes of trailing padding
VertexTypesOver(names) ==
  {[attributes |-> a, stride |-> AttrBytes(a) + pad] :
     a \in SeqsUpTo(Attrs(names), MaxAttrs), pad \in {0, 4}}

\* create_vertex_buffer: the (vao, vbo) pair the draw call is given
VertexBuffer == <<1, 1>>

\* ---------------------------------------------------------------- shaders
\* compile_shader(src, t); status is the driver's COMPILE_STATUS
compile_shader(src, t, status) ==
  LET shader == IF t = "VERTEX_SHADER" THEN 1 ELSE 2
      head == <<[fn |-> "CreateShader", type |-> t],
                [fn |-> "ShaderSource", shader |-> shader, src |-> src],
                [fn |-> "CompileShader", shader |-> shader, type |-> t],
                [fn |-> "GetShaderiv", shader |-> shader, pname |-> "COMPILE_STATUS"]>>
  IN IF ~status
     THEN [calls |-> head \o
                     <<[fn |-> "GetShaderiv", shader |-> shader, pname |-> "INFO_LOG_LENGTH"],
                       [fn |-> "GetShaderInfoLog", shader |-> shader]>>,
           result |-> Err("Error compiling shader")]
     ELSE [calls |-> head, result |-> Ok(shader)]

GLVertexShaderNew(src, status) == compile_shader(src, "VERTEX_SHADER", status)
GLFragmentShaderNew(src, status) == compile_shader(src, "FRAGMENT_SHADER", status)

\* link_program(vs, fs); status is the driver's LINK_STATUS
link_program(vs, fs, status) ==
  LET prog == 3
      head == <<[fn |-> "CreateProgram"],
                [fn |-> "AttachShader", program |-> prog, shader |-> vs],
                [fn |-> "AttachShader", program |-> prog, shader |-> fs],
                [fn |-> "LinkProgram", program |-> prog],
                [fn |-> "GetProgramiv", program |-> prog, pname |-> "LINK_STATUS"]>>
  IN IF ~status
     THEN [calls |-> head \o
                     <<[fn |-> "GetProgramiv", program |-> prog, pname |-> "INFO_LOG_LENGTH"],
                       [fn |-> "GetProgramInfoLog", program |-> prog]>>,
           result |-> Err("Error linking program")]
     ELSE [calls |-> head, result |-> Ok(prog)]

\* Program::new
ProgramNewUnchecked(vertex_shader, frag_shader, linkStatus) ==
  LET l == link_program(vertex_shader, frag_shader, linkStatus)
  IN [calls |-> l.calls, result |-> Ok([uniforms |-> <<>>, gl_ref |-> 3])]
ProgramNew(vertex_shader, frag_shader, linkStatus) ==
  LET l == link_program(vertex_shader, frag_shader, linkStatus)
  IN IF ~l.result.ok
     THEN [calls |-> l.calls, result |-> l.result]
     ELSE [calls |-> l.calls,
           result |-> Ok([uniforms |-> <<>>, gl_ref |-> l.result.val])]

\* create_program(vs, fs): each `?` returns the error at once
create_programEager(vs, fs, vsStatus, fsStatus, linkStatus) ==
  LET v == GLVertexShaderNew(vs, vsStatus)
      f == GLFragmentShaderNew(fs, fsStatus)
  IN IF ~v.result.ok THEN [calls |-> v.calls \o f.calls, result |-> v.result]
     ELSE IF ~f.result.ok THEN [calls |-> v.calls \o f.calls, result |-> f.result]
     ELSE LET p == ProgramNew(v.result.val, f.result.val, linkStatus)
          IN [calls |-> v.calls \o f.calls \o p.calls, result |-> p.result]
create_program(vs, fs, vsStatus, fsStatus, linkStatus) ==
  LET v == GLVertexShaderNew(vs, vsStatus)
  IN IF ~v.result.ok THEN [calls |-> v.calls, result |-> v.result]
     ELSE LET f == GLFragmentShaderNew(fs, fsStatus)
          IN IF ~f.result.ok
             THEN [calls |-> v.calls \o f.calls, result |-> f.result]
             ELSE LET p == ProgramNew(v.result.val, f.result.val, linkStatus)
                  IN [calls |-> v.calls \o f.calls \o p.calls, result |-> p.result]

ShaderSources == {"void main() {}", "void main() { x }"}

\* ---------------------------------------------------------------- Program
\* Program::set_uniform: self.uniforms.push((name.into(), uniform))
PushDedup(uniforms, name, uniform) ==
  IF \E i \in 1..Len(uniforms) : uniforms[i][1] = name
  THEN [i \in 1..Len(uniforms) |->
          IF uniforms[i][1] = name THEN <<name, uniform>> ELSE uniforms[i]]
  ELSE Append(uniforms, <<name, uniform>>)
Push(uniforms, name, uniform) == Append(uniforms, <<name, uniform>>)

\* ---------------------------------------------------------------- driver
\* the effect of one driver call on the driver state
Apply(d, c) ==
  CASE c.fn = "BlendFunc" -> [d EXCEPT !.blendFunc = <<c.sfactor, c.dfactor>>]
    [] c.fn = "Enable" -> [d EXCEPT !.blend = TRUE]
    [] c.fn = "ActiveTexture" -> [d EXCEPT !.activeTexture = c.texture - TEXTURE0]
    [] c.fn = "BindTexture" -> [d EXCEPT !.texUnits[d.activeTexture] = c.texture]
    [] c.fn = "Uniform2f" ->
         IF c.location = -1 THEN d
         ELSE [d EXCEPT !.uniforms[c.location] = [kind |-> "2f", v |-> <<c.v0, c.v1>>]]
    [] c.fn = "Uniform1i" ->
         IF c.location = -1 THEN d
         ELSE [d EXCEPT !.uniforms[c.location] = [kind |-> "1i", i |-> c.v0]]
    [] c.fn = "DrawArrays" ->
         [d EXCEPT !.atDraw = Some([uniforms |-> d.uniforms, texUnits |-> d.texUnits,
                                    blend |-> d.blend, blendFunc |-> d.blendFunc])]
    [] OTHER -> d

RECURSIVE ApplyAll(_, _)
ApplyAll(d, cs) == IF cs = <<>> THEN d ELSE ApplyAll(Apply(d, Head(cs)), Tail(cs))

\* ---------------------------------------------------------------- render_vertices
\* the `set uniforms` loop, from entry i on with texture_index units used
RECURSIVE UniformCallsNoIncrement(_, _, _, _)
UniformCallsNoIncrement(gl_ref, uniforms, i, texture_index) ==
  IF i > Len(uniforms) THEN <<>>
  ELSE LET name == uniforms[i][1]
           uniform == uniforms[i][2]
           attr == GetUniformLocation(name)
           lookup == [fn |-> "GetUniformLocation", program |-> gl_ref, name |-> name]
       IN IF uniform.tag = "Vec2"
          THEN <<lookup,
                 [fn |-> "Uniform2f", location |-> attr,
                  v0 |-> uniform.v[1], v1 |-> uniform.v[2]]>>
               \o UniformCallsNoIncrement(gl_ref, uniforms, i + 1, texture_index)
          ELSE <<lookup,
                 [fn |-> "ActiveTexture", texture |-> TEXTURE0 + texture_index],
                 [fn |-> "BindTexture", target |-> "TEXTURE_2D", texture |-> uniform.gl_ref],
                 [fn |-> "Uniform1i", location |-> attr, v0 |-> texture_index]>>
               \o UniformCallsNoIncrement(gl_ref, uniforms, i + 1, texture_index)
RECURSIVE UniformCalls(_, _, _, _)
UniformCalls(gl_ref, uniforms, i, texture_index) ==
  IF i > Len(uniforms) THEN <<>>
  ELSE LET name == uniforms[i][1]
           uniform == uniforms[i][2]
           attr == GetUniformLocation(name)
           lookup == [fn |-> "GetUniformLocation", program |-> gl_ref, name |-> name]
       IN IF uniform.tag = "Vec2"
          THEN <<lookup,
                 [fn |-> "Uniform2f", location |-> attr,
                  v0 |-> uniform.v[1], v1 |-> uniform.v[2]]>>
               \o UniformCalls(gl_ref, uniforms, i + 1, texture_index)
          ELSE <<lookup,
                 [fn |-> "ActiveTexture", texture |-> TEXTURE0 + texture_index],
                 [fn |-> "BindTexture", target |-> "TEXTURE_2D", texture |-> uniform.gl_ref],
                 [fn |-> "Uniform1i", location |-> attr, v0 |-> texture_index]>>
               \o UniformCalls(gl_ref, uniforms, i + 1, texture_index + 1)

\* the `define vertex format` loop, from attribute i on with running offset step
RECURSIVE AttribCallsNoSize(_, _, _, _, _)
AttribCallsNoSize(gl_ref, attributes, stride, i, step) ==
  IF i > Len(attributes) THEN <<>>
  ELSE LET a == attributes[i]
           attr == GetAttribLocation(a.name)
       IN <<[fn |-> "GetAttribLocation", program |-> gl_ref, name |-> a.name],
            [fn |-> "EnableVertexAttribArray", index |-> AsGLuint(attr)],
            [fn |-> "VertexAttribPointer", index |-> AsGLuint(attr), size |-> a.count,
             type |-> GLType(a.type), normalized |-> FALSE, stride |-> stride,
             pointer |-> step]>>
          \o AttribCallsNoSize(gl_ref, attributes, stride, i + 1, step + a.count)
RECURSIVE AttribCalls(_, _, _, _, _)
AttribCalls(gl_ref, attributes, stride, i, step) ==
  IF i > Len(attributes) THEN <<>>
  ELSE LET a == attributes[i]
           attr == GetAttribLocation(a.name)
       IN <<[fn |-> "GetAttribLocation", program |-> gl_ref, name |-> a.name],
            [fn |-> "EnableVertexAttribArray", index |-> AsGLuint(attr)],
            [fn |-> "VertexAttribPointer", index |-> AsGLuint(attr), size |-> a.count,
             type |-> GLType(a.type), normalized |-> FALSE, stride |-> stride,
             pointer |-> step]>>
          \o AttribCalls(gl_ref, attributes, stride, i + 1,
                         step + a.count * AttrTypeSize(a.type))

\* every driver call of render_vertices::<V>(vertex_buffer, program, vertices);
\* n is vertices.len()
Reversed(s) == [i \in 1..Len(s) |-> s[Len(s) + 1 - i]]
RenderCallsReversed(vertex_buffer, prog, V, n) ==
  <<[fn |-> "BlendFunc", sfactor |-> "SRC_ALPHA", dfactor |-> "ONE_MINUS_SRC_ALPHA"],
    [fn |-> "Enable", cap |-> "BLEND"],
    [fn |-> "BindVertexArray", array |-> vertex_buffer[1]],
    [fn |-> "BindBuffer", target |-> "ARRAY_BUFFER", buffer |-> vertex_buffer[2]],
    [fn |-> "BufferData", target |-> "ARRAY_BUFFER", size |-> n * V.stride,
     usage |-> "STATIC_DRAW"],
    [fn |-> "UseProgram", program |-> prog.gl_ref]>>
  \o UniformCalls(prog.gl_ref, Reversed(prog.uniforms), 1, 0)
  \o AttribCalls(prog.gl_ref, V.attributes, V.stride, 1, 0)
  \o <<[fn |-> "DrawArrays", mode |-> "TRIANGLES", first |-> 0, count |-> n]>>
RenderCallsSkipEmpty(vertex_buffer, prog, V, n) ==
  <<[fn |-> "BlendFunc", sfactor |-> "SRC_ALPHA", dfactor |-> "ONE_MINUS_SRC_ALPHA"],
    [fn |-> "Enable", cap |-> "BLEND"],
    [fn |-> "BindVertexArray", array |-> vertex_buffer[1]],
    [fn |-> "BindBuffer", target |-> "ARRAY_BUFFER", buffer |-> vertex_buffer[2]],
    [fn |-> "BufferData", target |-> "ARRAY_BUFFER", size |-> n * V.stride,
     usage |-> "STATIC_DRAW"],
    [fn |-> "UseProgram", program |-> prog.gl_ref]>>
  \o UniformCalls(prog.gl_ref, prog.uniforms, 1, 0)
  \o AttribCalls(prog.gl_ref, V.attributes, V.stride, 1, 0)
  \o (IF n = 0 THEN <<>>
      ELSE <<[fn |-> "DrawArrays", mode |-> "TRIANGLES", first |-> 0, count |-> n]>>)
RenderCalls(vertex_buffer, prog, V, n) ==
  <<[fn |-> "BlendFunc", sfactor |-> "SRC_ALPHA", dfactor |-> "ONE_MINUS_SRC_ALPHA"],
    [fn |-> "Enable", cap |-> "BLEND"],
    [fn |-> "BindVertexArray", array |-> vertex_buffer[1]],
    [fn |-> "BindBuffer", target |-> "ARRAY_BUFFER", buffer |-> vertex_buffer[2]],
    [fn |-> "BufferData", target |-> "ARRAY_BUFFER", size |-> n * V.stride,
     usage |-> "STATIC_DRAW"],
    [fn |-> "UseProgram", program |-> prog.gl_ref]>>
  \o UniformCalls(prog.gl_ref, prog.uniforms, 1, 0)
  \o AttribCalls(prog.gl_ref, V.attributes, V.stride, 1, 0)
  \o <<[fn |-> "DrawArrays", mode |-> "TRIANGLES", first |-> 0, count |-> n]>>

\* render_vertices borrows the program immutably (`program: &Program`)
ProgramCleared(prog) == [prog EXCEPT !.uniforms = <<>>]
ProgramAfterRender(prog) == prog

\* ---------------------------------------------------------------- actions
\* One Program is followed per behaviour: create_program is called until it
\* yields one.
CreateProgram(vs, fs, vsStatus, fsStatus, linkStatus) ==
  /\ ~program.some
  /\ LET r == create_program(vs, fs, vsStatus, fsStatus, linkStatus)
     IN /\ program' = IF r.result.ok THEN Some(r.result.val) ELSE None
        /\ lastCall' = [op |-> "create_program", vsStatus |-> vsStatus,
                        fsStatus |-> fsStatus, linkStatus |-> linkStatus,
                        result |-> r.result]
        /\ calls' = r.calls
        /\ driver' = ApplyAll(driver, r.calls)
  /\ setHistory' = <<>>
  /\ sinceDraw' = 0
  /\ UNCHANGED vertexType
  /\ UNCHANGED inputVars

SetUniform(name, uniform) ==
  /\ program.some
  /\ Len(setHistory) < MaxUniforms
  /\ program' = Some([program.val EXCEPT !.uniforms = Push(@, name, uniform)])
  /\ lastCall' = [op |-> "set_uniform", name |-> name, uniform |-> uniform]
  /\ calls' = <<>>
  /\ setHistory' = Append(setHistory, <<name, uniform>>)
  /\ sinceDraw' = sinceDraw + 1
  /\ UNCHANGED <<driver, vertexType>>
  /\ UNCHANGED inputVars

RenderVertices(n) ==
  /\ program.some
  /\ LET cs == RenderCalls(VertexBuffer, program.val, vertexType, n)
     IN /\ calls' = cs
        /\ driver' = ApplyAll(driver, cs)
  /\ program' = Some(ProgramAfterRender(program.val))
  /\ lastCall' = [op |-> "render_vertices", n |-> n, result |-> Ok(<<>>)]
  /\ sinceDraw' = 0
  /\ UNCHANGED <<setHistory, vertexType>>
  /\ UNCHANGED inputVars

\* the driver state a host hands over: blending as the host left it
InitDriver ==
  {[blend |-> b, blendFunc |-> f, activeTexture |-> 0,
    texUnits |-> [u \in 0..(MaxUniforms - 1) |-> 0],
    uniforms |-> [l \in UniformLocations |-> [kind |-> "unset"]],
    atDraw |-> None] :
     b \in BOOLEAN, f \in {<<"ONE", "ZERO">>}}

InitRender(types, blends) ==
  /\ program = None
  /\ lastCall = [op |-> "none"]
  /\ calls = <<>>
  /\ driver \in {d \in InitDriver : d.blend \in blends}
  /\ setHistory = <<>>
  /\ sinceDraw = 0
  /\ vertexType \in types

InitInput ==
  /\ slots = InputHandlerNew
  /\ registered = [c \in Classes |-> None]
  /\ invoked = <<>>
  /\ delivered = [c \in Classes |-> 0]
  /\ invocations = [c \in Classes |-> 0]
  /\ lastEvent = None

\* the vertex type of the draw calls in Spec: position and texture coordinate
PlainVertexTypes ==
  {[attributes |-> <<[name |-> "position", count |-> 2, type |-> "Float"],
                     [name |-> "uv", count |-> 2, type |-> "Float"]>>,
    stride |-> 16]}

CreateStep ==
  \E vs \in ShaderSources, fs \in ShaderSources,
     vsStatus \in BOOLEAN, fsStatus \in BOOLEAN, linkStatus \in BOOLEAN :
    CreateProgram(vs, fs, vsStatus, fsStatus, linkStatus)

\* program creation, uniform accumulation and draw submission
Init == InitInput /\ InitRender(PlainVertexTypes, BOOLEAN)

Next ==
  \/ CreateStep
  \/ \E name \in UniformNames, uniform \in Uniforms : SetUniform(name, uniform)
  \/ \E n \in 0..MaxVerts : RenderVertices(n)

Spec == Init /\ [][Next]_vars

\* program creation and draw submission for every vertex layout
InitLayout == InitInput /\ InitRender(VertexTypesOver(AttrNames), {FALSE})

NextLayout ==
  \/ \E vs \in ShaderSources, fs \in ShaderSources, linkStatus \in BOOLEAN :
       CreateProgram(vs, fs, TRUE, TRUE, linkStatus)
  \/ \E n \in 0..MaxVerts : RenderVertices(n)

SpecLayout == InitLayout /\ [][NextLayout]_vars

\* the InputHandler alone, the renderer idle
InitIdle == InitInput /\ InitRender(PlainVertexTypes, {FALSE})

NextInput ==
  \/ \E x \in Coords, y \in Coords : mouse_move(x, y)
  \/ \E b \in Buttons, x \in Coords, y \in Coords : mouse_down(b, x, y)
  \/ \E b \in Buttons, x \in Coords, y \in Coords : mouse_up(b, x, y)
  \/ \E k \in Keys : key_down(k)
  \/ \E k \in Keys : key_up(k)
  \/ \E f \in Closures : set_mouse_move(f)
  \/ \E f \in Closures : set_mouse_down(f)
  \/ \E f \in Closures : set_mouse_up(f)
  \/ \E f \in Closures : set_key_down(f)
  \/ \E f \in Closures : set_key_up(f)

SpecInput == InitIdle /\ [][NextInput]_vars

\* ======================================================================
\* Properties
\* ======================================================================
CallsNamed(fn) == SelectSeq(calls, LAMBDA c : c.fn = fn)
Positions(fns) == {i \in 1..Len(calls) : calls[i].fn \in fns}
Rendered == lastCall.op = "render_vertices"
Created == lastCall.op = "create_program"

\* C1: delivering an event of a class whose slot is empty invokes no closure
\* of any class and leaves all five slots unchanged.
C1_UnregisteredEventDropped ==
  [][\A c \in Classes :
       (delivered'[c] = delivered[c] + 1 /\ ~slots[c].some)
         => /\ invoked' = <<>>
            /\ invocations' = invocations
            /\ slots' = slots]_vars

\* only key_down is registered and two mouse-move events have been delivered
C1_Witness ==
  /\ slots["key_down"].some
  /\ \A c \in Classes \ {"key_down"} : ~slots[c].some
  /\ lastEvent.some /\ lastEvent.val.class = "mouse_move"
  /\ delivered["mouse_move"] = 2

\* C2: a delivered event whose class has a closure invokes exactly the closure
\* most recently registered for that class, once, with the delivered payload;
\* nothing of another class is invoked, a registration invokes nothing, and
\* the invocations of a class never outnumber its delivered events.
C2_OneSynchronousInvocation ==
  /\ \A c \in Classes : invocations[c] <= delivered[c]
  /\ \A c \in Classes : slots[c] = registered[c]
  /\ ~lastEvent.some => invoked = <<>>
  /\ lastEvent.some =>
       LET e == lastEvent.val
       IN IF registered[e.class].some
          THEN invoked = <<[class |-> e.class,
                            closure |-> registered[e.class].val,
                            args |-> e.args]>>
          ELSE invoked = <<>>

\* a mouse-down dropped while unregistered, then closure 1 and closure 2
\* registered, then a second mouse-down: only closure 2 runs, once
C2_Witness ==
  /\ lastEvent.some /\ lastEvent.val.class = "mouse_down"
  /\ delivered["mouse_down"] = 2
  /\ invocations["mouse_down"] = 1
  /\ registered["mouse_down"] = Some(2)
  /\ invoked = <<[class |-> "mouse_down", closure |-> 2, args |-> <<1, 0, 1>>]>>

\* index of the last set_uniform call for name, 0 when there is none
LastSet(name) ==
  LET S == {i \in 1..Len(setHistory) : setHistory[i][1] = name}
  IN IF S = {} THEN 0 ELSE CHOOSE i \in S : \A j \in S : j <= i

\* C3: when the draw call is issued the driver holds, for every active
\* uniform name that was set, the value of the last set_uniform for that name:
\* the vector itself, or a texture unit that holds that call's texture.
C3_LastWriteWins ==
  Rendered =>
    /\ driver.atDraw.some
    /\ \A name \in UniformNames :
         (GetUniformLocation(name) # -1 /\ LastSet(name) # 0) =>
           LET u == setHistory[LastSet(name)][2]
               held == driver.atDraw.val.uniforms[GetUniformLocation(name)]
           IN IF u.tag = "Vec2"
              THEN held = [kind |-> "2f", v |-> u.v]
              ELSE /\ held.kind = "1i"
                   /\ driver.atDraw.val.texUnits[held.i] = u.gl_ref

\* u_tex set twice in a row with different textures, then drawn
C3_Witness ==
  /\ Rendered
  /\ Len(setHistory) >= 2
  /\ LET k == Len(setHistory)
     IN /\ setHistory[k - 1][1] = "u_tex" /\ setHistory[k][1] = "u_tex"
        /\ setHistory[k - 1][2] = Texture(1) /\ setHistory[k][2] = Texture(2)

\* C4: when the vertex stage fails to compile, create_program returns the
\* compile error, starts no fragment-shader compile and no link, and yields
\* no Program.
C4_VertexFailureShortCircuits ==
  (Created /\ ~lastCall.vsStatus) =>
    /\ lastCall.result = Err("Error compiling shader")
    /\ \A i \in 1..Len(calls) :
         /\ calls[i].fn \in {"CreateShader", "CompileShader"}
              => calls[i].type = "VERTEX_SHADER"
         /\ calls[i].fn \notin {"CreateProgram", "AttachShader", "LinkProgram"}
    /\ ~program.some

\* the vertex stage failed although the fragment stage and the link would
\* have succeeded
C4_Witness ==
  /\ Created /\ ~lastCall.vsStatus /\ lastCall.fsStatus /\ lastCall.linkStatus
  /\ Len(CallsNamed("CompileShader")) = 1

\* C5: compile error when either stage fails (no link attempted), link error
\* when both compile and the link fails, a Program with an empty uniform list
\* exactly when all three succeed; each stage is attempted at most once.
C5_CreateOutcome ==
  Created =>
    LET vsOk == lastCall.vsStatus
        fsOk == lastCall.fsStatus
        linkOk == lastCall.linkStatus
        r == lastCall.result
    IN /\ (~vsOk \/ ~fsOk) => /\ r = Err("Error compiling shader")
                              /\ Positions({"LinkProgram"}) = {}
       /\ (vsOk /\ fsOk /\ ~linkOk) => r = Err("Error linking program")
       /\ r.ok <=> (vsOk /\ fsOk /\ linkOk)
       /\ r.ok => r.val.uniforms = <<>> /\ program = Some(r.val)
       /\ ~r.ok => ~program.some
       /\ Len(CallsNamed("CompileShader")) <= 2
       /\ Len(CallsNamed("LinkProgram")) <= 1
       /\ \A i \in Positions({"CompileShader"}), j \in Positions({"CompileShader"}) :
            i # j => calls[i].type # calls[j].type

\* both stages compiled and the link failed
C5_Witness ==
  /\ Created /\ lastCall.vsStatus /\ lastCall.fsStatus /\ ~lastCall.linkStatus
  /\ Len(CallsNamed("LinkProgram")) = 1
  /\ ~program.some

\* C6: set_uniform appends exactly its (name, value) pair at the end of the
\* list, keeps every earlier entry in place, and issues no driver call; the
\* list is as long as the number of set_uniform calls since creation; the
\* driver's uniform and texture-unit state changes only in render_vertices.
C6_SetUniformAppendsOnly ==
  [][/\ (lastCall'.op = "set_uniform" /\ Len(setHistory') = Len(setHistory) + 1) =>
          /\ program'.val.uniforms =
               Append(program.val.uniforms, <<lastCall'.name, lastCall'.uniform>>)
          /\ Len(program'.val.uniforms) = Len(setHistory')
          /\ calls' = <<>>
          /\ driver' = driver
     /\ (driver'.uniforms # driver.uniforms \/ driver'.texUnits # driver.texUnits)
          => lastCall'.op = "render_vertices"]_vars

\* a third entry appended after a draw, its name already in the list
C6_Witness ==
  /\ lastCall.op = "set_uniform"
  /\ driver.atDraw.some
  /\ Len(program.val.uniforms) = 3
  /\ program.val.uniforms[1][1] = program.val.uniforms[3][1]
  /\ program.val.uniforms[1][2] # program.val.uniforms[3][2]

IsAttribPointer(c) == c.fn = "VertexAttribPointer"
\* bytes of the attributes before the i-th
BytesBefore(attrs, i) == AttrBytes(SubSeq(attrs, 1, i - 1))

\* C7: for a vertex type whose attributes sum to its stride S, the i-th
\* attribute is configured with the cumulative byte offset of the attributes
\* before it and with stride S; offsets increase strictly and the running
\* offset ends at S.
C7_AttributeOffsets ==
  (Rendered /\ vertexType.stride = AttrBytes(vertexType.attributes)) =>
    LET attrs == vertexType.attributes
        ptrs == SelectSeq(calls, IsAttribPointer)
    IN /\ Len(ptrs) = Len(attrs)
       /\ \A i \in 1..Len(attrs) :
            /\ ptrs[i].pointer = BytesBefore(attrs, i)
            /\ ptrs[i].stride = vertexType.stride
            /\ ptrs[i].size = attrs[i].count
            /\ ptrs[i].type = GLType(attrs[i].type)
            /\ ptrs[i].index = AsGLuint(GetAttribLocation(attrs[i].name))
            /\ i > 1 => ptrs[i].pointer > ptrs[i - 1].pointer
       /\ attrs # <<>> =>
            /\ ptrs[1].pointer = 0
            /\ LET k == Len(attrs)
               IN ptrs[k].pointer + attrs[k].count * AttrTypeSize(attrs[k].type)
                    = vertexType.stride

\* a draw with a two-component float followed by a one-component unsigned,
\* stride 12
C7_Witness ==
  /\ Rendered
  /\ vertexType.stride = 12
  /\ Len(vertexType.attributes) = 2
  /\ vertexType.attributes[1] = [name |-> "position", count |-> 2, type |-> "Float"]
  /\ vertexType.attributes[2] = [name |-> "uv", count |-> 1, type |-> "Unsigned"]
  /\ lastCall.n = 1

\* the Texture entries of the program's uniform list, in list order
TextureEntries ==
  SelectSeq(program.val.uniforms, LAMBDA e : e[2].tag = "Texture")

\* C8: in every draw the j-th Texture entry (from 0) is bound to unit j and j
\* is written as its uniform value; Vec2 entries take no unit; the units used
\* are exactly 0..T-1, whatever T is.
C8_TextureUnitsInListOrder ==
  Rendered =>
    LET tex == TextureEntries
        act == CallsNamed("ActiveTexture")
        bind == CallsNamed("BindTexture")
        ints == CallsNamed("Uniform1i")
    IN /\ Len(act) = Len(tex) /\ Len(bind) = Len(tex) /\ Len(ints) = Len(tex)
       /\ \A j \in 1..Len(tex) :
            /\ act[j].texture = TEXTURE0 + (j - 1)
            /\ bind[j].texture = tex[j][2].gl_ref
            /\ ints[j].v0 = j - 1
            /\ ints[j].location = GetUniformLocation(tex[j][1])
            /\ driver.texUnits[j - 1] = tex[j][2].gl_ref
       /\ Len(CallsNamed("Uniform2f")) = Len(program.val.uniforms) - Len(tex)

\* a draw of the list (u_tex texture, a vector, u_tex texture)
C8_Witness ==
  /\ Rendered
  /\ Len(program.val.uniforms) = 3
  /\ program.val.uniforms[1] = <<"u_tex", Texture(2)>>
  /\ program.val.uniforms[2][2].tag = "Vec2"
  /\ program.val.uniforms[3] = <<"u_tex", Texture(1)>>

IsUniformWrite(c) == c.fn \in {"Uniform2f", "Uniform1i"}
IsLookup(c) == c.fn = "GetUniformLocation"

\* C9 as stated: the list holds exactly the pairs set since the program was
\* last used in a draw, so that a draw leaves nothing for the next one.
C9_Original ==
  program.some =>
    Len(program.val.uniforms) = sinceDraw

\* C9 amended: the list holds exactly the pairs set since the program was
\* created, in call order; every draw applies all of them, those applied by
\* earlier draws included.
C9_ListHoldsAllSinceCreation ==
  program.some =>
    /\ program.val.uniforms = setHistory
    /\ Rendered =>
         LET looked == SelectSeq(calls, IsLookup)
         IN /\ Len(SelectSeq(calls, IsUniformWrite)) = Len(setHistory)
            /\ Len(looked) = Len(setHistory)
            /\ \A i \in 1..Len(setHistory) : looked[i].name = setHistory[i][1]

\* one set_uniform after a draw that had applied two entries: the list holds
\* three
C9_Witness ==
  /\ lastCall.op = "set_uniform"
  /\ driver.atDraw.some
  /\ sinceDraw = 1
  /\ Len(program.val.uniforms) = 3

\* C10: every draw issues, in order, the blend setup, the vertex-array bind
\* and buffer upload, the program activation and all uniforms, the attribute
\* layout, and then one triangle-list draw as its last driver call, and
\* returns Ok; so also for an empty vertex sequence.
C10_RenderOrder ==
  Rendered =>
    LET uni == Positions({"GetUniformLocation", "Uniform2f", "Uniform1i",
                          "ActiveTexture", "BindTexture"})
        att == Positions({"GetAttribLocation", "EnableVertexAttribArray",
                          "VertexAttribPointer"})
        drw == Positions({"DrawArrays"})
    IN /\ lastCall.result = Ok(<<>>)
       /\ Len(calls) >= 7
       /\ calls[1] = [fn |-> "BlendFunc", sfactor |-> "SRC_ALPHA",
                      dfactor |-> "ONE_MINUS_SRC_ALPHA"]
       /\ calls[2] = [fn |-> "Enable", cap |-> "BLEND"]
       /\ calls[3] = [fn |-> "BindVertexArray", array |-> VertexBuffer[1]]
       /\ calls[4] = [fn |-> "BindBuffer", target |-> "ARRAY_BUFFER",
                      buffer |-> VertexBuffer[2]]
       /\ calls[5] = [fn |-> "BufferData", target |-> "ARRAY_BUFFER",
                      size |-> lastCall.n * vertexType.stride, usage |-> "STATIC_DRAW"]
       /\ calls[6] = [fn |-> "UseProgram", program |-> program.val.gl_ref]
       /\ drw = {Len(calls)}
       /\ calls[Len(calls)] = [fn |-> "DrawArrays", mode |-> "TRIANGLES",
                               first |-> 0, count |-> lastCall.n]
       /\ uni \cup att = 7..(Len(calls) - 1)
       /\ \A i \in uni, j \in att : i < j
       /\ Cardinality(Positions({"Uniform2f", "Uniform1i"})) = Len(program.val.uniforms)
       /\ Cardinality(Positions({"VertexAttribPointer"})) = Len(vertexType.attributes)
       /\ driver.blend /\ driver.blendFunc = <<"SRC_ALPHA", "ONE_MINUS_SRC_ALPHA">>
       /\ driver.atDraw.val.blend

\* a draw of an empty vertex sequence with two uniforms set
C10_Witness ==
  /\ Rendered
  /\ lastCall.n = 0
  /\ Len(program.val.uniforms) = 2
  /\ Len(vertexType.attributes) = 2
====
